---- MODULE Spec2Model ----
(***************************************************************************)
(* rgbfusion: the HID packet encoders (Gigabyte TRX40 Aorus Master, ASUS   *)
(* ROG Strix X670E-F) and the program that writes a config to the HID bus. *)
(*                                                                         *)
(* src/src/main.rs declares its own Zone and Effect enums (IO, CPU, SID,   *)
(* CX, LED0, LED1 / five effects) and encodes a Config itself with         *)
(* Config::as_bytes; the two controller modules match on a Zone with the   *)
(* variants Io, Cpu, Audio, Chipset, Header0, Header1 and an Effect with   *)
(* eight variants.  Both are modelled as the source has them: MainZone and *)
(* MainEffect are main.rs's enums, Zone and Effect the controllers'.       *)
(***************************************************************************)
EXTENDS Integers, Sequences, FiniteSets, TLC

VARIABLES
    pc,         \* position of the program
    mode,       \* subcommand main dispatched to: "none", "zonetest", "rgbfusion"
    config,     \* the Config being written or encoded
    i,          \* zonetest: index of the zone of the running iteration
    writes,     \* every device.write call made so far: [call, bytes, ok]
    err,        \* message the process died with, "none" while it runs
    controller, \* HidController whose config_bytes was called, "none" before
    result      \* Result returned by config_bytes / bytes of Config::as_bytes

vars == <<pc, mode, config, i, writes, err, controller, result>>

----------------------------------------------------------------------------
(* Integer widths *)

U8Max == 255
U16Max == 65535

U8 == 0..U8Max
U16 == 0..U16Max

(* `x as u8` *)
AsU8(x) == x % (U8Max + 1)

(* u16 arithmetic of a release build wraps at 2^16 *)
WrapU16(x) == x % (U16Max + 1)

(* [0; n] *)
Zeros(n) == [k \in 1..n |-> 0]

(* BufMut::put_u16: big-endian *)
put_u16(x) == <<x \div 256, x % 256>>

(* Result<T, E> *)
Ok(v) == [ok |-> TRUE, val |-> v]
Err(m) == [ok |-> FALSE, err |-> m]

----------------------------------------------------------------------------
(* Value types of main.rs *)

VENDOR_ID == 1165
PRODUCT_ID == 33431

Rgb(r, g, b) == [r |-> r, g |-> g, b |-> b]

(* TESTCOLORS left at five entries when the sixth zone was added *)
TESTCOLORS_Short ==
    << Rgb(255, 0, 0), Rgb(0, 255, 0), Rgb(0, 0, 255),
       Rgb(255, 0, 255), Rgb(255, 255, 0) >>

TESTCOLORS ==
    << Rgb(255, 0, 0), Rgb(0, 255, 0), Rgb(0, 0, 255),
       Rgb(255, 0, 255), Rgb(255, 255, 0), Rgb(255, 255, 255) >>

apply_packet == <<204, 40, 255>> \o Zeros(20)

(* Effect::variants() and `effect as u8` of main.rs *)
MainEffect_variants == <<"Off", "Static", "Pulse", "Flash", "Cycle">>

MainEffect == {MainEffect_variants[k] : k \in 1..Len(MainEffect_variants)}

MainEffect_as_u8(effect) ==
    CASE effect = "Off" -> 0
      [] effect = "Static" -> 1
      [] effect = "Pulse" -> 2
      [] effect = "Flash" -> 3
      [] effect = "Cycle" -> 4

(* Zone::variants() and `zone as u16` of main.rs *)
MainZone_variants == <<"IO", "CPU", "SID", "CX", "LED0", "LED1">>

MainZone == {MainZone_variants[k] : k \in 1..Len(MainZone_variants)}

MainZone_as_u16(zone) ==
    CASE zone = "IO" -> 8193
      [] zone = "CPU" -> 8450
      [] zone = "SID" -> 8968
      [] zone = "CX" -> 9232
      [] zone = "LED0" -> 9504
      [] zone = "LED1" -> 9792

Brightness_max_value == U8Max

Brightness_default == 0

Duration_default == 100

(* impl AsBytes for Brightness *)
Brightness_as_bytes(b) == << AsU8(WrapU16(90 * b) \div U8Max) >>

(* impl AsBytes for Duration *)
Duration_as_bytes(d) == put_u16(d \div 250)

Config_default ==
    [ zone |-> "IO",
      effect |-> "Static",
      max_brightness |-> Brightness_max_value,
      min_brightness |-> Brightness_default,
      color |-> Rgb(0, 0, 0),
      fade_in_time |-> Duration_default,
      fade_out_time |-> Duration_default,
      hold_time |-> Duration_default ]

(* impl AsBytes for Config *)
Config_as_bytes(c) ==
    <<204>>
    \o put_u16(MainZone_as_u16(c.zone))
    \o Zeros(8)
    \o << MainEffect_as_u8(c.effect) >>
    \o Brightness_as_bytes(c.max_brightness)
    \o Brightness_as_bytes(c.min_brightness)
    \o << c.color.b, c.color.g, c.color.r >>
    \o <<0>>
    \o Zeros(3)
    \o <<0>>
    \o Duration_as_bytes(c.fade_in_time)
    \o Duration_as_bytes(c.fade_out_time)
    \o Duration_as_bytes(c.hold_time)
    \o Zeros(3)

----------------------------------------------------------------------------
(* Enums the controller modules match on *)

Effect ==
    {"Off", "Static", "Pulse", "Flash", "Cycle", "Rainbow", "ChaseFade", "Chase"}

Zone == {"Io", "Cpu", "Audio", "Chipset", "Header0", "Header1"}

----------------------------------------------------------------------------
(* gigabyte_trx40_aorus_master.rs *)

Gigabyte_vendor_id == 1165
Gigabyte_product_id == 33431

(* duration_bytes with the ticks put low byte first (put_u16_le) *)
Gigabyte_duration_bytes_Le(duration) ==
    << (duration \div 250) % 256, (duration \div 250) \div 256 >>

(* fn duration_bytes *)
Gigabyte_duration_bytes(duration) == put_u16(duration \div 250)

(* brightness_bytes rounding to the nearest level instead of truncating *)
Gigabyte_brightness_bytes_Round(brightness) ==
    << AsU8(WrapU16(90 * brightness + 127) \div U8Max) >>

(* fn brightness_bytes *)
Gigabyte_brightness_bytes(brightness) ==
    << AsU8(WrapU16(90 * brightness) \div U8Max) >>

(* effect_bytes that also lets Rainbow through with the next free code *)
Gigabyte_effect_bytes_Rainbow(effect) ==
    CASE effect = "Off" -> Ok(0)
      [] effect = "Static" -> Ok(1)
      [] effect = "Pulse" -> Ok(2)
      [] effect = "Flash" -> Ok(3)
      [] effect = "Cycle" -> Ok(4)
      [] effect = "Rainbow" -> Ok(5)
      [] OTHER -> Err("unsupported effect")

(* fn effect_bytes *)
Gigabyte_effect_bytes(effect) ==
    CASE effect = "Off" -> Ok(0)
      [] effect = "Static" -> Ok(1)
      [] effect = "Pulse" -> Ok(2)
      [] effect = "Flash" -> Ok(3)
      [] effect = "Cycle" -> Ok(4)
      [] OTHER -> Err("unsupported effect")

(* fn zone_bytes *)
Gigabyte_zone_bytes(zone) ==
    CASE zone = "Io" -> 8193
      [] zone = "Cpu" -> 8450
      [] zone = "Audio" -> 8968
      [] zone = "Chipset" -> 9232
      [] zone = "Header0" -> 9504
      [] zone = "Header1" -> 9792

(* impl HidController for GigabyteTrx40AorusMaster: fn config_bytes.       *)
(* Everything is put into the one buf, which is returned as the only       *)
(* element of the Vec; `?` on effect_bytes returns its error.              *)
Gigabyte_config_bytes(c) ==
    LET effect == Gigabyte_effect_bytes(c.effect)
    IN  IF ~effect.ok
        THEN Err(effect.err)
        ELSE LET buf ==
                     <<204>>
                     \o put_u16(Gigabyte_zone_bytes(c.zone))
                     \o Zeros(8)
                     \o << effect.val >>
                     \o Gigabyte_brightness_bytes(c.max_brightness)
                     \o Gigabyte_brightness_bytes(c.min_brightness)
                     \o << c.color.b, c.color.g, c.color.r >>
                     \o <<0>>
                     \o Zeros(3)
                     \o <<0>>
                     \o Gigabyte_duration_bytes(c.fade_in_time)
                     \o Gigabyte_duration_bytes(c.fade_out_time)
                     \o Gigabyte_duration_bytes(c.hold_time)
                     \o Zeros(3)
                     \o <<204, 40, 255>>
                     \o Zeros(20)
             IN  Ok(<< buf >>)

----------------------------------------------------------------------------
(* asus_strix_x670e_f.rs *)

Asus_vendor_id == 2821
Asus_product_id == 6575

(* a | b on u8 *)
RECURSIVE BitOr(_, _)
BitOr(a, b) ==
    IF a = 0 /\ b = 0
    THEN 0
    ELSE (IF a % 2 = 1 \/ b % 2 = 1 THEN 1 ELSE 0)
         + 2 * BitOr(a \div 2, b \div 2)

IO_MASK == BitOr(BitOr(4, 2), 1)
CPU_MASK == 32
GPU_MASK == 64

(* effect_bytes with Chase given the code of ChaseFade *)
Asus_effect_bytes_ChaseDup(effect) ==
    CASE effect = "Off" -> 0
      [] effect = "Static" -> 1
      [] effect = "Pulse" -> 2
      [] effect = "Flash" -> 3
      [] effect = "Cycle" -> 4
      [] effect = "Rainbow" -> 5
      [] effect = "ChaseFade" -> 7
      [] effect = "Chase" -> 7

(* fn effect_bytes *)
Asus_effect_bytes(effect) ==
    CASE effect = "Off" -> 0
      [] effect = "Static" -> 1
      [] effect = "Pulse" -> 2
      [] effect = "Flash" -> 3
      [] effect = "Cycle" -> 4
      [] effect = "Rainbow" -> 5
      [] effect = "ChaseFade" -> 7
      [] effect = "Chase" -> 9

(* fn zone_bytes *)
Asus_zone_bytes(zone) ==
    CASE zone = "Io" -> Ok(0)
      [] zone = "Header0" -> Ok(1)
      [] OTHER -> Err("unsupported zone")

(* zone_mask that knows the Io zone only *)
Asus_zone_mask_IoOnly(zone) ==
    CASE zone = "Io" -> Ok(IO_MASK)
      [] OTHER -> Err("unsupported zone")

(* fn zone_mask *)
Asus_zone_mask(zone) ==
    CASE zone = "Io" -> Ok(IO_MASK)
      [] zone = "Header0" -> Ok(BitOr(CPU_MASK, GPU_MASK))
      [] OTHER -> Err("unsupported zone")

(* color_bytes with the channels in the blue-green-red order of the Gigabyte packet *)
Asus_color_bytes_Bgr(zone, color) ==
    LET mask == Asus_zone_mask(zone)
        bgr == << color.b, color.g, color.r >>
    IN  IF ~mask.ok
        THEN Err(mask.err)
        ELSE Ok( <<236, 54, 0, mask.val, 0>>
                 \o bgr \o bgr \o bgr
                 \o Zeros(6)
                 \o bgr
                 \o bgr )

(* fn color_bytes *)
Asus_color_bytes(zone, color) ==
    LET mask == Asus_zone_mask(zone)
        rgb == << color.r, color.g, color.b >>
    IN  IF ~mask.ok
        THEN Err(mask.err)
        ELSE Ok( <<236, 54, 0, mask.val, 0>>
                 \o rgb \o rgb \o rgb
                 \o Zeros(6)
                 \o rgb
                 \o rgb )

(* config_bytes that commits only when the LEDs are not switched off *)
Asus_config_bytes_NoCommitOff(c) ==
    LET effect == Asus_effect_bytes(c.effect)
        zone == Asus_zone_bytes(c.zone)
    IN  IF ~zone.ok
        THEN Err(zone.err)
        ELSE LET effect_bytes == <<236, 53, zone.val, 0, 0, effect>>
                 color_bytes == Asus_color_bytes(c.zone, c.color)
                 commit_bytes == <<236, 63, 85>>
             IN  IF ~color_bytes.ok
                 THEN Err(color_bytes.err)
                 ELSE IF c.effect = "Off"
                      THEN Ok(<< effect_bytes, color_bytes.val >>)
                      ELSE Ok(<< effect_bytes, color_bytes.val, commit_bytes >>)

(* impl HidController for AsusRogStrixX670EF: fn config_bytes *)
Asus_config_bytes(c) ==
    LET effect == Asus_effect_bytes(c.effect)
        zone == Asus_zone_bytes(c.zone)
    IN  IF ~zone.ok
        THEN Err(zone.err)
        ELSE LET effect_bytes == <<236, 53, zone.val, 0, 0, effect>>
                 color_bytes == Asus_color_bytes(c.zone, c.color)
                 commit_bytes == <<236, 63, 85>>
             IN  IF ~color_bytes.ok
                 THEN Err(color_bytes.err)
                 ELSE Ok(<< effect_bytes, color_bytes.val, commit_bytes >>)

----------------------------------------------------------------------------
(* Inputs *)

(* colour channels, brightness levels and durations the configs are drawn from *)
ChannelSamples == {0, 18, 255}
BrightnessSamples == {0, 1, 128, U8Max}
DurationSamples == {0, Duration_default, 249, 250, U16Max}

ColorSamples ==
    {Rgb(r, g, b) : r \in ChannelSamples, g \in {0, 52, 255}, b \in {0, 86, 255}}

(* Configs Config::from_cli can build (main.rs enums) *)
MainConfigs ==
    [ zone : MainZone,
      effect : MainEffect,
      max_brightness : {1, U8Max},
      min_brightness : {Brightness_default, 128},
      color : {Rgb(0, 0, 0), Rgb(18, 52, 86), Rgb(255, 0, 0)},
      fade_in_time : {Duration_default, 250},
      fade_out_time : {Duration_default},
      hold_time : {Duration_default, U16Max} ]

----------------------------------------------------------------------------
(* main.rs: the program *)

Init ==
    /\ pc = "main"
    /\ mode = "none"
    /\ config = Config_default
    /\ i = 0
    /\ writes = <<>>
    /\ err = "none"
    /\ controller = "none"
    /\ result = Err("none")

(* fn main: subcommand zonetest *)
MainZonetest ==
    /\ pc = "main"
    /\ pc' = "zonetest_confirm"
    /\ mode' = "zonetest"
    /\ UNCHANGED <<config, i, writes, err, controller, result>>

(* fn main -> fn rgbfusion: Config::from_cli, then write_config *)
MainRgbfusion ==
    /\ pc = "main"
    /\ \E c \in MainConfigs : config' = c
    /\ pc' = "hidapi"
    /\ mode' = "rgbfusion"
    /\ UNCHANGED <<i, writes, err, controller, result>>

(* fn zonetest: the answer is not "y" *)
ZonetestBail ==
    /\ pc = "zonetest_confirm"
    /\ pc' = "done"
    /\ UNCHANGED <<mode, config, i, writes, err, controller, result>>

(* fn zonetest: the answer is "y" *)
ZonetestConfirm ==
    /\ pc = "zonetest_confirm"
    /\ pc' = "zonetest_loop"
    /\ i' = 0
    /\ UNCHANGED <<mode, config, writes, err, controller, result>>

(* fn zonetest: one iteration of the for loop up to the write_config call; *)
(* TESTCOLORS[i] panics when i is out of bounds                            *)
ZonetestNext ==
    /\ pc = "zonetest_loop"
    /\ i < Len(MainZone_variants)
    /\ IF i + 1 \in DOMAIN TESTCOLORS
       THEN /\ config' = [Config_default EXCEPT
                              !.zone = MainZone_variants[i + 1],
                              !.color = TESTCOLORS[i + 1]]
            /\ pc' = "hidapi"
            /\ err' = err
       ELSE /\ pc' = "panic"
            /\ err' = "index out of bounds"
            /\ config' = config
    /\ UNCHANGED <<mode, i, writes, controller, result>>

(* fn zonetest: the iterator is exhausted *)
ZonetestDone ==
    /\ pc = "zonetest_loop"
    /\ i >= Len(MainZone_variants)
    /\ pc' = "done"
    /\ UNCHANGED <<mode, config, i, writes, err, controller, result>>

(* fn write_config: HidApi::new() *)
HidApiOk ==
    /\ pc = "hidapi"
    /\ pc' = "open"
    /\ UNCHANGED <<mode, config, i, writes, err, controller, result>>

(* fn write_config: HidApi::new().expect(..) panics *)
HidApiFail ==
    /\ pc = "hidapi"
    /\ pc' = "panic"
    /\ err' = "unable to access HID"
    /\ UNCHANGED <<mode, config, i, writes, controller, result>>

(* fn write_config: api.open(VENDOR_ID, PRODUCT_ID) is Ok *)
OpenOk ==
    /\ pc = "open"
    /\ pc' = "write_config"
    /\ UNCHANGED <<mode, config, i, writes, err, controller, result>>

(* OpenFail without the exit: the error is printed and write_config goes on *)
OpenFail_NoExit ==
    /\ pc = "open"
    /\ pc' = "write_config"
    /\ err' = "unable to open device"
    /\ UNCHANGED <<mode, config, i, writes, controller, result>>

(* fn write_config: api.open is Err, die! exits the process *)
OpenFail ==
    /\ pc = "open"
    /\ pc' = "exit1"
    /\ err' = "unable to open device"
    /\ UNCHANGED <<mode, config, i, writes, controller, result>>

(* one device.write call of the running write_config *)
Write(bytes, ok) == [call |-> i, bytes |-> bytes, ok |-> ok]

(* fn write_config: device.write(&config.as_bytes()) is Ok *)
WriteConfigOk ==
    /\ pc = "write_config"
    /\ writes' = Append(writes, Write(Config_as_bytes(config), TRUE))
    /\ pc' = "write_apply"
    /\ UNCHANGED <<mode, config, i, err, controller, result>>

(* WriteConfigFail without the exit: the apply packet is written anyway *)
WriteConfigFail_NoExit ==
    /\ pc = "write_config"
    /\ writes' = Append(writes, Write(Config_as_bytes(config), FALSE))
    /\ pc' = "write_apply"
    /\ err' = "unable to write new config"
    /\ UNCHANGED <<mode, config, i, controller, result>>

(* fn write_config: device.write(&config.as_bytes()) is Err *)
WriteConfigFail ==
    /\ pc = "write_config"
    /\ writes' = Append(writes, Write(Config_as_bytes(config), FALSE))
    /\ pc' = "exit1"
    /\ err' = "unable to write new config"
    /\ UNCHANGED <<mode, config, i, controller, result>>

(* fn write_config: device.write(&apply_packet()) is Ok; write_config      *)
(* returns to rgbfusion, which returns, or to the loop of zonetest         *)
WriteApplyOk ==
    /\ pc = "write_apply"
    /\ writes' = Append(writes, Write(apply_packet, TRUE))
    /\ IF mode = "zonetest"
       THEN pc' = "zonetest_loop" /\ i' = i + 1
       ELSE pc' = "done" /\ i' = i
    /\ UNCHANGED <<mode, config, err, controller, result>>

(* fn write_config: device.write(&apply_packet()) is Err *)
WriteApplyFail ==
    /\ pc = "write_apply"
    /\ writes' = Append(writes, Write(apply_packet, FALSE))
    /\ pc' = "exit1"
    /\ err' = "unable to apply new config"
    /\ UNCHANGED <<mode, config, i, controller, result>>

Next ==
    \/ MainZonetest
    \/ MainRgbfusion
    \/ ZonetestBail
    \/ ZonetestConfirm
    \/ ZonetestNext
    \/ ZonetestDone
    \/ HidApiOk
    \/ HidApiFail
    \/ OpenOk
    \/ OpenFail
    \/ WriteConfigOk
    \/ WriteConfigFail
    \/ WriteApplyOk
    \/ WriteApplyFail

Spec == Init /\ [][Next]_vars

----------------------------------------------------------------------------
(* The controllers' config_bytes applied to a Config *)

(* Config::default() with the controllers' Zone *)
EncConfig_default == [Config_default EXCEPT !.zone = "Io"]

(* Configs handed to HidController::config_bytes *)
EncConfigs ==
    [ zone : Zone,
      effect : Effect,
      max_brightness : BrightnessSamples,
      min_brightness : {Brightness_default, U8Max},
      color : ColorSamples,
      fade_in_time : DurationSamples,
      fade_out_time : {Duration_default, 500},
      hold_time : {Duration_default, U16Max} ]

InitWith(p, c) ==
    /\ pc = p
    /\ mode = "none"
    /\ config = c
    /\ i = 0
    /\ writes = <<>>
    /\ err = "none"
    /\ controller = "none"
    /\ result = Err("none")

InitEnc == \E c \in EncConfigs : InitWith("encode", c)

(* GigabyteTrx40AorusMaster.config_bytes(&config) *)
GigabyteConfigBytes ==
    /\ pc = "encode"
    /\ result' = Gigabyte_config_bytes(config)
    /\ controller' = "GigabyteTrx40AorusMaster"
    /\ pc' = "encoded"
    /\ UNCHANGED <<mode, config, i, writes, err>>

(* AsusRogStrixX670EF.config_bytes(&config) *)
AsusConfigBytes ==
    /\ pc = "encode"
    /\ result' = Asus_config_bytes(config)
    /\ controller' = "AsusRogStrixX670EF"
    /\ pc' = "encoded"
    /\ UNCHANGED <<mode, config, i, writes, err>>

NextEnc == GigabyteConfigBytes \/ AsusConfigBytes

SpecEnc == InitEnc /\ [][NextEnc]_vars

(* Every brightness pair, through the Gigabyte controller and through      *)
(* write_config of main.rs                                                 *)
InitBrightness ==
    \E max \in U8, min \in U8 :
        \/ InitWith("encode", [EncConfig_default EXCEPT
                                   !.max_brightness = max,
                                   !.min_brightness = min])
        \/ /\ InitWith("write_config", [Config_default EXCEPT
                                            !.max_brightness = max,
                                            !.min_brightness = min])

NextBrightness == GigabyteConfigBytes \/ WriteConfigOk

SpecBrightness == InitBrightness /\ [][NextBrightness]_vars

(* Every duration in each of the three timings *)
DurationFields == {"fade_in_time", "fade_out_time", "hold_time"}

InitDuration ==
    \E ms \in U16, f \in DurationFields :
        \/ InitWith("encode", [EncConfig_default EXCEPT ![f] = ms])
        \/ InitWith("write_config", [Config_default EXCEPT ![f] = ms])

NextDuration == GigabyteConfigBytes \/ WriteConfigOk

SpecDuration == InitDuration /\ [][NextDuration]_vars

----------------------------------------------------------------------------
(* Properties of write_config *)

(* the device.write calls of the running write_config call *)
CallWrites == SelectSeq(writes, LAMBDA w : w.call = i)

(* the device.write calls of the write_config call of zonetest iteration j *)
WritesOfCall(j) == SelectSeq(writes, LAMBDA w : w.call = j)

OpenFailed == err = "unable to open device"

(* C1: when api.open fails, write_config exits the process without having  *)
(* made any device.write call, and no write call is made afterwards:        *)
(* neither the configuration packet nor the apply packet is ever sent.      *)
C1_FailedOpenNoWrite ==
    /\ [](OpenFailed => pc = "exit1" /\ CallWrites = <<>>)
    /\ [][OpenFailed' => writes' = writes]_vars

C1_Witness ==
    /\ OpenFailed
    /\ pc = "exit1"
    /\ mode = "zonetest"
    /\ i = 2
    /\ Len(writes) = 4

(* the packets write_config writes, in order *)
WriteConfigPackets == << Config_as_bytes(config), apply_packet >>

(* index of the packet whose failed write the process reported, -1 if none *)
FailIndex ==
    CASE err = "unable to write new config" -> 0
      [] err = "unable to apply new config" -> 1
      [] OTHER -> -1

(* C2: write_config writes the configuration packet and then the apply      *)
(* packet, each at most once and in this order; a failed write is the last  *)
(* write call made, it is reported for its own index, every packet before   *)
(* it was written successfully exactly once and no packet after it is ever  *)
(* written (a failed configuration write: the apply packet is not written). *)
C2_StopAtFirstFailedWrite ==
    /\ [](LET W == CallWrites
          IN  /\ Len(W) <= Len(WriteConfigPackets)
              /\ \A k \in 1..Len(W) :
                    /\ W[k].bytes = WriteConfigPackets[k]
                    /\ k < Len(W) => W[k].ok
                    /\ ~W[k].ok => pc = "exit1" /\ FailIndex = k - 1
              /\ FailIndex >= 0 =>
                    /\ pc = "exit1"
                    /\ Len(W) = FailIndex + 1
                    /\ ~W[Len(W)].ok
              /\ \A j \in 0..(i - 1) :
                    /\ Len(WritesOfCall(j)) = 2
                    /\ WritesOfCall(j)[1].ok /\ WritesOfCall(j)[2].ok
                    /\ WritesOfCall(j)[2].bytes = apply_packet)
    /\ [][FailIndex >= 0 => writes' = writes]_vars

C2_Witness ==
    /\ FailIndex = 1
    /\ Len(CallWrites) = 2
    /\ CallWrites[1].ok
    /\ ~CallWrites[2].ok
    /\ CallWrites[2].bytes = apply_packet

----------------------------------------------------------------------------
(* Properties of the Gigabyte TRX40 Aorus Master controller *)

GigabyteEncoded == pc = "encoded" /\ controller = "GigabyteTrx40AorusMaster"

GigabyteSupportedEffects == {"Off", "Static", "Pulse", "Flash", "Cycle"}

(* C3: Gigabyte config_bytes is an error without packets for Rainbow,       *)
(* ChaseFade and Chase, and Ok with effect code 0, 1, 2, 3, 4 at byte 11    *)
(* for Off, Static, Pulse, Flash, Cycle, whatever the zone, colour,         *)
(* brightness pair and durations are.                                       *)
C3_GigabyteEffects ==
    GigabyteEncoded =>
        /\ result.ok <=> config.effect \in GigabyteSupportedEffects
        /\ ~result.ok => "val" \notin DOMAIN result
        /\ result.ok =>
              /\ Len(result.val) >= 1
              /\ result.val[1][12] =
                    (CASE config.effect = "Off" -> 0
                       [] config.effect = "Static" -> 1
                       [] config.effect = "Pulse" -> 2
                       [] config.effect = "Flash" -> 3
                       [] config.effect = "Cycle" -> 4)

C3_Witness ==
    /\ GigabyteEncoded
    /\ config.effect = "ChaseFade"
    /\ config.max_brightness = 1
    /\ config.fade_in_time = 249
    /\ ~result.ok

(* C5: every successful Gigabyte config_bytes result ends with the apply    *)
(* packet [0xCC, 0x28, 0xFF, 20 zero bytes] as an element of its own, after *)
(* the configuration packet.                                                *)
C5_ApplyPacketIsLastElement ==
    (GigabyteEncoded /\ result.ok) =>
        /\ Len(result.val) >= 2
        /\ result.val[Len(result.val)] = apply_packet
        /\ Len(result.val[Len(result.val)]) = 23

----------------------------------------------------------------------------
(* Properties of the ASUS ROG Strix X670E-F controller *)

AsusEncoded == pc = "encoded" /\ controller = "AsusRogStrixX670EF"

AsusSupportedZones == {"Io", "Header0"}

(* C4: Asus config_bytes is an error without packets for the zones Cpu,     *)
(* Audio, Chipset and Header1 and Ok for Io and Header0 with every effect;  *)
(* zone_bytes and zone_mask accept the same zones, so the effect packet and *)
(* the colour packet are both produced or neither is.                       *)
C4_AsusZones ==
    AsusEncoded =>
        /\ result.ok <=> config.zone \in AsusSupportedZones
        /\ ~result.ok => "val" \notin DOMAIN result
        /\ Asus_zone_bytes(config.zone).ok
              <=> Asus_color_bytes(config.zone, config.color).ok
        /\ \A z \in Zone : Asus_zone_bytes(z).ok <=> Asus_zone_mask(z).ok
        /\ result.ok => Len(result.val) = 3

C4_Witness ==
    /\ AsusEncoded
    /\ config.zone = "Header1"
    /\ config.effect = "Rainbow"
    /\ ~result.ok

(* C6: a successful Asus config_bytes result is exactly the three packets   *)
(* effect, colour, commit in this order: packet 1 is [0xEC, 0x35, zone      *)
(* code, 0, 0, effect code] with zone code 0 for Io and 1 for Header0,      *)
(* packet 3 is [0xEC, 0x3F, 0x55] for every effect; Io with Static gives    *)
(* packet 1 = [0xEC, 0x35, 0x00, 0x00, 0x00, 0x01].                         *)
C6_AsusThreePackets ==
    (AsusEncoded /\ result.ok) =>
        /\ Len(result.val) = 3
        /\ result.val[1] =
              << 236, 53, (IF config.zone = "Io" THEN 0 ELSE 1), 0, 0,
                 Asus_effect_bytes(config.effect) >>
        /\ result.val[2][1] = 236 /\ result.val[2][2] = 54
        /\ result.val[3] = <<236, 63, 85>>
        /\ (config.zone = "Io" /\ config.effect = "Static")
              => result.val[1] = <<236, 53, 0, 0, 0, 1>>

C6_Witness ==
    /\ AsusEncoded
    /\ result.ok
    /\ config.zone = "Io"
    /\ config.effect = "Static"
    /\ config.color = Rgb(255, 0, 0)
    /\ Len(result.val) = 3

(* the effect codes are pairwise distinct and agree with the Gigabyte       *)
(* controller on the effects it supports                                    *)
AsusEffectCodesDistinct ==
    /\ \A e1, e2 \in Effect :
          e1 # e2 => Asus_effect_bytes(e1) # Asus_effect_bytes(e2)
    /\ \A e \in GigabyteSupportedEffects :
          Asus_effect_bytes(e) = Gigabyte_effect_bytes(e).val

(* C7 as claimed: the effect code in the effect packet is in 0..=7 for each *)
(* of the eight effects, the codes are pairwise distinct, and Off, Static,  *)
(* Pulse, Flash, Cycle have the codes 0, 1, 2, 3, 4 of the Gigabyte         *)
(* controller.                                                              *)
C7_Original_EffectCodeUpTo7 ==
    (AsusEncoded /\ result.ok) =>
        /\ result.val[1][6] \in 0..7
        /\ AsusEffectCodesDistinct

(* C7 amended: the effect code in the effect packet is in 0..=9 (Off 0,     *)
(* Static 1, Pulse 2, Flash 3, Cycle 4, Rainbow 5, ChaseFade 7, Chase 9),   *)
(* the codes are pairwise distinct, and Off, Static, Pulse, Flash, Cycle    *)
(* have the codes 0, 1, 2, 3, 4 of the Gigabyte controller.                 *)
C7_EffectCodeUpTo9 ==
    (AsusEncoded /\ result.ok) =>
        /\ result.val[1][6] \in 0..9
        /\ result.val[1][6] =
              (CASE config.effect = "Off" -> 0
                 [] config.effect = "Static" -> 1
                 [] config.effect = "Pulse" -> 2
                 [] config.effect = "Flash" -> 3
                 [] config.effect = "Cycle" -> 4
                 [] config.effect = "Rainbow" -> 5
                 [] config.effect = "ChaseFade" -> 7
                 [] config.effect = "Chase" -> 9)
        /\ AsusEffectCodesDistinct

C7_Witness ==
    /\ AsusEncoded
    /\ result.ok
    /\ config.effect = "Chase"
    /\ result.val[1][6] = 9

(* the colour packet for a zone mask and a colour *)
AsusColourPacket(mask, color) ==
    << 236, 54, 0, mask, 0,
       color.r, color.g, color.b,
       color.r, color.g, color.b,
       color.r, color.g, color.b,
       0, 0, 0, 0, 0, 0,
       color.r, color.g, color.b,
       color.r, color.g, color.b >>

AsusExpectedMask == IF config.zone = "Io" THEN 7 ELSE 96

(* C8 as claimed: the colour packet is exactly 23 bytes long and equals     *)
(* [0xEC, 0x36, 0x00, zone_mask, 0x00, R,G,B, R,G,B, R,G,B, 0,0,0,0,0,0,    *)
(* R,G,B, R,G,B] with zone_mask 0x07 for Io and 0x60 for Header0.           *)
C8_Original_ColourPacket23Bytes ==
    (AsusEncoded /\ result.ok) =>
        /\ Len(result.val[2]) = 23
        /\ result.val[2] = AsusColourPacket(AsusExpectedMask, config.color)

(* C8 amended: the colour packet is exactly 26 bytes long and equals        *)
(* [0xEC, 0x36, 0x00, zone_mask, 0x00, R,G,B, R,G,B, R,G,B, 0,0,0,0,0,0,    *)
(* R,G,B, R,G,B] for every colour, with zone_mask 0x07 for Io and 0x60 for  *)
(* Header0, each of the five triples being the input colour in              *)
(* red-green-blue order.                                                    *)
C8_ColourPacket26Bytes ==
    (AsusEncoded /\ result.ok) =>
        /\ Len(result.val[2]) = 26
        /\ result.val[2] = AsusColourPacket(AsusExpectedMask, config.color)

C8_Witness ==
    /\ AsusEncoded
    /\ result.ok
    /\ config.zone = "Header0"
    /\ config.color = Rgb(18, 52, 86)
    /\ result.val[2][4] = 96

----------------------------------------------------------------------------
(* Properties of the value conversions of the Gigabyte packet *)

(* the configuration packet written by write_config of main.rs *)
MainWritten == pc = "write_apply" /\ Len(writes) = 1 /\ writes[1].ok

(* the bytes the running specification encoded the config into *)
EncodedConfig ==
    IF GigabyteEncoded THEN result.val[1] ELSE writes[1].bytes

ConfigEncoded == (GigabyteEncoded /\ result.ok) \/ MainWritten

(* C9: the brightness byte is floor(90 * b / 255) for every b in 0..=255,   *)
(* for max_brightness (byte 12) and for min_brightness (byte 13) alike: the *)
(* 16-bit product 90 * b does not overflow, the byte is in 0..=90, it is    *)
(* non-decreasing in b, 0 for b = 0 and 90 for b = 255.                     *)
C9_BrightnessScaled ==
    ConfigEncoded =>
        LET max == config.max_brightness
            min == config.min_brightness
            p == EncodedConfig
        IN  /\ 90 * max <= U16Max /\ 90 * min <= U16Max
            /\ p[13] = (90 * max) \div 255
            /\ p[14] = (90 * min) \div 255
            /\ p[13] \in 0..90 /\ p[14] \in 0..90
            /\ min <= max => p[14] <= p[13]
            /\ max <= min => p[13] <= p[14]
            /\ max = 0 => p[13] = 0
            /\ max = 255 => p[13] = 90
            /\ min = 0 => p[14] = 0
            /\ min = 255 => p[14] = 90

C9_Witness ==
    /\ GigabyteEncoded
    /\ result.ok
    /\ config.max_brightness = 255
    /\ config.min_brightness = 254
    /\ result.val[1][13] = 90
    /\ result.val[1][14] = 89

(* the 16-bit big-endian value at bytes k, k + 1 (counted from 1) *)
U16At(p, k) == 256 * p[k] + p[k + 1]

(* C10: each of fade-in, fade-out and hold, given as ms in 0..=65535, is    *)
(* encoded as floor(ms / 250) in two bytes, high byte first: 0 -> 0,        *)
(* 249 -> 0, 250 -> 1, 65535 -> 262; every duration below 250 ms, the       *)
(* default of 100 ms included, encodes as zero.                             *)
C10_DurationTicks ==
    ConfigEncoded =>
        LET p == EncodedConfig
            Ticks(ms, k) ==
                /\ p[k] \in U8 /\ p[k + 1] \in U8
                /\ U16At(p, k) = ms \div 250
                /\ p[k] = (ms \div 250) \div 256
                /\ ms < 250 => p[k] = 0 /\ p[k + 1] = 0
                /\ ms = 249 => U16At(p, k) = 0
                /\ ms = 250 => p[k] = 0 /\ p[k + 1] = 1
                /\ ms = 65535 => p[k] = 1 /\ p[k + 1] = 6
                /\ ms = Duration_default => U16At(p, k) = 0
        IN  /\ Ticks(config.fade_in_time, 23)
            /\ Ticks(config.fade_out_time, 25)
            /\ Ticks(config.hold_time, 27)
            /\ Duration_default = 100

C10_Witness ==
    /\ GigabyteEncoded
    /\ result.ok
    /\ config.hold_time = 65535
    /\ config.fade_in_time = Duration_default
    /\ result.val[1][27] = 1
    /\ result.val[1][28] = 6
    /\ result.val[1][23] = 0
    /\ result.val[1][24] = 0

----------------------------------------------------------------------------
(* Properties of the layout of the Gigabyte configuration packet *)

(* the 16-bit zone addresses of the Gigabyte packet *)
GigabyteZoneAddress(zone) ==
    CASE zone = "Io" -> 8193
      [] zone = "Cpu" -> 8450
      [] zone = "Audio" -> 8968
      [] zone = "Chipset" -> 9232
      [] zone = "Header0" -> 9504
      [] zone = "Header1" -> 9792

(* the 31 bytes [0xCC, zone_hi, zone_lo, 8 zero bytes, effect code, scaled  *)
(* max brightness, scaled min brightness, B, G, R, 0, 0,0,0, 0, fade_in,    *)
(* fade_out, hold, 0,0,0] for a config with a supported effect              *)
GigabyteConfigLayout(c) ==
    << 204,
       GigabyteZoneAddress(c.zone) \div 256, GigabyteZoneAddress(c.zone) % 256,
       0, 0, 0, 0, 0, 0, 0, 0,
       (CASE c.effect = "Off" -> 0
          [] c.effect = "Static" -> 1
          [] c.effect = "Pulse" -> 2
          [] c.effect = "Flash" -> 3
          [] c.effect = "Cycle" -> 4),
       (90 * c.max_brightness) \div 255,
       (90 * c.min_brightness) \div 255,
       c.color.b, c.color.g, c.color.r,
       0,
       0, 0, 0,
       0,
       (c.fade_in_time \div 250) \div 256, (c.fade_in_time \div 250) % 256,
       (c.fade_out_time \div 250) \div 256, (c.fade_out_time \div 250) % 256,
       (c.hold_time \div 250) \div 256, (c.hold_time \div 250) % 256,
       0, 0, 0 >>

(* C11: the Gigabyte configuration packet is the 31 bytes [0xCC, zone_hi,   *)
(* zone_lo, 8 zero bytes, effect code, scaled max brightness, scaled min    *)
(* brightness, B, G, R, 0, 0,0,0, 0, fade_in, fade_out, hold, 0,0,0]: zone  *)
(* address big-endian at bytes 1-2, effect code at byte 11, primary colour  *)
(* blue-green-red at bytes 14-16, secondary colour (bytes 18-20) zero.      *)
C11_ConfigPacketLayout ==
    (GigabyteEncoded /\ result.ok) =>
        /\ Len(result.val[1]) = 31
        /\ result.val[1] = GigabyteConfigLayout(config)

(* What config_bytes does give: the bytes of the claimed layout are the     *)
(* first 31 of the 54 bytes of the only element, the apply bytes follow.    *)
GigabyteLayoutOfLeadingBytes ==
    (GigabyteEncoded /\ result.ok) =>
        /\ Len(result.val) = 1
        /\ Len(result.val[1]) = 54
        /\ SubSeq(result.val[1], 1, 31) = GigabyteConfigLayout(config)
        /\ SubSeq(result.val[1], 32, 54) = apply_packet
        /\ config.color = Rgb(18, 52, 86)
              => SubSeq(result.val[1], 15, 17) = <<86, 52, 18>>

----------------------------------------------------------------------------
(* Properties of zonetest *)

(* zonetest is inside the write_config call of iteration i *)
ZonetestInCall ==
    /\ mode = "zonetest"
    /\ pc \in {"hidapi", "open", "write_config", "write_apply", "exit1"}

(* zonetest iterated over every zone and returned *)
ZonetestCompleted ==
    mode = "zonetest" /\ pc = "done" /\ i = Len(MainZone_variants)

(* colour and zone address carried by a written configuration packet *)
PacketColor(bytes) == Rgb(bytes[17], bytes[16], bytes[15])
PacketZone(bytes) == U16At(bytes, 2)

(* the zonetest iterations whose configuration packet was written *)
WrittenCalls == {j \in 0..i : Len(WritesOfCall(j)) >= 1}

(* C12: Zone::variants() and TESTCOLORS have the same length; zonetest      *)
(* never indexes TESTCOLORS out of bounds; the zone of iteration i gets     *)
(* TESTCOLORS[i]; two different zones never get the same colour; and a      *)
(* zonetest that ran through has used every test colour.                    *)
C12_TestColorsMatchZones ==
    /\ Len(MainZone_variants) = Len(TESTCOLORS)
    /\ err # "index out of bounds"
    /\ ZonetestInCall =>
          /\ i + 1 \in DOMAIN TESTCOLORS
          /\ config.zone = MainZone_variants[i + 1]
          /\ config.color = TESTCOLORS[i + 1]
    /\ mode = "zonetest" =>
          /\ \A j \in WrittenCalls :
                /\ PacketZone(WritesOfCall(j)[1].bytes)
                      = MainZone_as_u16(MainZone_variants[j + 1])
                /\ PacketColor(WritesOfCall(j)[1].bytes) = TESTCOLORS[j + 1]
          /\ \A j1, j2 \in WrittenCalls :
                j1 # j2 =>
                    /\ PacketZone(WritesOfCall(j1)[1].bytes)
                          # PacketZone(WritesOfCall(j2)[1].bytes)
                    /\ PacketColor(WritesOfCall(j1)[1].bytes)
                          # PacketColor(WritesOfCall(j2)[1].bytes)
    /\ ZonetestCompleted =>
          \A k \in DOMAIN TESTCOLORS :
              \E n \in DOMAIN writes :
                  /\ writes[n].ok
                  /\ writes[n].bytes # apply_packet
                  /\ PacketColor(writes[n].bytes) = TESTCOLORS[k]

C12_Witness ==
    /\ ZonetestCompleted
    /\ Len(writes) = 12
    /\ PacketColor(writes[11].bytes) = Rgb(255, 255, 255)
    /\ PacketZone(writes[11].bytes) = 9792

====
